---- MODULE Spec2Model ----
(***************************************************************************)
(* Model of the DymoLabeler command encoder of dymoprint.py: the command   *)
(* buffer, the dotTab / bytesPerLine memo, the mid-level builder calls     *)
(* and the high-level calls sendCommand, getStatus, rawPrintLabel and      *)
(* printLabel.  The device is observed through what each call writes to   *)
(* it and reads from it.                                                   *)
(***************************************************************************)
EXTENDS Integers, Sequences, FiniteSets, TLC

\* ---------------------------------------------------------------- constants
_ESC == 27
_SYN == 22
_MAX_BYTES_PER_LINE == 8
maxLines == 200
DefaultMargin == 56 * 2
\* Python's None for bytesPerLine_ (no byte count equals it)
None == -1

OrdA == 65
OrdB == 66
OrdC == 67
OrdD == 68
OrdE == 69

\* ------------------------------------------------------------------- bounds
\* builder calls are taken while the buffer holds at most MaxCmd bytes
MaxCmd == 3
\* rows of the small matrices handed to rawPrintLabel / printLabel
MaxRows == 2
\* largest skipLines argument and print margin tried
MaxSkip == 2
\* most lines of a QR code tried (the label is 64 dots high)
MaxModules == 81

VARIABLES
  cmd,            \* self.cmd: the command buffer, a list of integers
  src,            \* for each buffer entry, the builder call that appended it
  response,       \* self.response
  bytesPerLine_,  \* self.bytesPerLine_ (None or the memoized byte count)
  dotTab_,        \* self.dotTab_
  aborted,        \* the buffer holds what a print job left when a builder call raised
  asked,          \* statusRequest was called since the last sendCommand or resetCommand
  wire,           \* the bytes-per-line and dot-tab the device holds after the writes
                  \* so far, where the device is watched
  lastCall,       \* the last call made on the labeler and what it did to the device
  todo,           \* the calls the caller still has to make (print jobs, lookups)
  frame           \* the print call that runs step by step: its position and locals

vars == <<cmd, src, response, bytesPerLine_, dotTab_, aborted, asked, wire, lastCall,
          todo, frame>>

\* ------------------------------------------------------------------ helpers
Rep(x, n) == [i \in 1..n |-> x]

\* Python's max() of a non-empty sequence
SeqMax(s) == CHOOSE m \in {s[i] : i \in 1..Len(s)} : \A i \in 1..Len(s) : s[i] <= m

\* the labeler as a value: the fields of self plus the outcome of the call
\* in progress (exception raised, device writes and reads, chunks printed)
Self == [cmd |-> cmd, src |-> src, response |-> response,
         bytesPerLine_ |-> bytesPerLine_, dotTab_ |-> dotTab_,
         asked |-> asked, wire |-> wire, exc |-> "none", at |-> "none",
         wrote |-> <<>>, reads |-> 0, sends |-> <<>>, chunks |-> <<>>,
         misframed |-> FALSE]

Raise(s, e, where) == [s EXCEPT !.exc = e, !.at = where]

\* the locals of a print call that has not started: printLabel's lines and
\* margin, rawPrintLabel's lines, margin and dottab, the row the trailing-zero
\* loop is at, and whether printLabel has rows left after this chunk
NoFrame == [pc |-> "idle", rest |-> <<>>, margin |-> 0, lines |-> <<>>,
            chunkMargin |-> 0, dottab |-> 0, row |-> 0, more |-> FALSE]

\* --------------------------------------------------------------- the device
\* what a device that was sent nothing holds: no bytes-per-line, dot-tab 0
Fresh == [on |-> TRUE, bytesPerLine |-> None, dotTab |-> 0]

\* a device that is not watched
Unwatched == [on |-> FALSE, bytesPerLine |-> None, dotTab |-> 0]

\* the indexes of bytes where a command appended by the builder call tag
\* ends: tag is dotTab or bytesPerLine, whose commands are three bytes each
Ends(tags, tag) ==
  {i \in 1..Len(tags) :
     /\ tags[i] = tag
     /\ Cardinality({j \in 1..i : tags[j] = tag}) % 3 = 0}

Last(S) == CHOOSE i \in S : \A j \in S : j <= i

\* what a device holding w holds after it was sent bytes: the value of the
\* last dot-tab command, and the value of the last bytes-per-line command
\* unless a dot-tab command came after it
Receive(w, bytes, tags) ==
  LET tabs == Ends(tags, "dotTab")
      counts == Ends(tags, "bytesPerLine")
  IN IF ~w.on THEN w
     ELSE [on |-> TRUE,
           dotTab |-> IF tabs = {} THEN w.dotTab ELSE bytes[Last(tabs)],
           bytesPerLine |->
             IF counts # {} /\ (tabs = {} \/ Last(tabs) < Last(counts))
               THEN bytes[Last(counts)]
             ELSE IF tabs # {} THEN None
             ELSE w.bytesPerLine]

\* what the device will hold once the buffer of s is written too
Pending(s) == Receive(s.wire, s.cmd, s.src)

\* ------------------------------------------------------ mid-level functions
buildCommand(s, c, tag) ==
  [s EXCEPT !.cmd = @ \o c, !.src = @ \o Rep(tag, Len(c))]

resetCommand_KeepsResponse(s) ==
  [s EXCEPT !.cmd = <<>>, !.src = <<>>, !.asked = FALSE]

resetCommand(s) ==
  [s EXCEPT !.cmd = <<>>, !.src = <<>>, !.response = FALSE, !.asked = FALSE]

statusRequest(s) ==
  [buildCommand(s, <<_ESC, OrdA>>, "statusRequest")
     EXCEPT !.response = TRUE, !.asked = TRUE]

dotTab_RejectsEight(s, value) ==
  IF value < 0 \/ value >= _MAX_BYTES_PER_LINE
    THEN Raise(s, "ValueError", "dotTab")
    ELSE [buildCommand(s, <<_ESC, OrdB, value>>, "dotTab")
            EXCEPT !.dotTab_ = value, !.bytesPerLine_ = None]

dotTab_NeverUnsets(s, value) ==
  IF value < 0 \/ value > _MAX_BYTES_PER_LINE
    THEN Raise(s, "ValueError", "dotTab")
    ELSE [buildCommand(s, <<_ESC, OrdB, value>>, "dotTab") EXCEPT !.dotTab_ = value]

dotTab_KeepsMemo(s, value) ==
  IF value < 0 \/ value > _MAX_BYTES_PER_LINE
    THEN Raise(s, "ValueError", "dotTab")
    ELSE [buildCommand(s, <<_ESC, OrdB, value>>, "dotTab")
            EXCEPT !.dotTab_ = value,
                   !.bytesPerLine_ = IF value = s.dotTab_ THEN @ ELSE None]

dotTab(s, value) ==
  IF value < 0 \/ value > _MAX_BYTES_PER_LINE
    THEN Raise(s, "ValueError", "dotTab")
    ELSE [buildCommand(s, <<_ESC, OrdB, value>>, "dotTab")
            EXCEPT !.dotTab_ = value, !.bytesPerLine_ = None]

tapeColor(s, value) ==
  IF value < 0
    THEN Raise(s, "ValueError", "tapeColor")
    ELSE buildCommand(s, <<_ESC, OrdC, value>>, "tapeColor")

bytesPerLine_IgnoresDotTab(s, value) ==
  IF value < 0 \/ value > _MAX_BYTES_PER_LINE
    THEN Raise(s, "ValueError", "bytesPerLine")
    ELSE IF value = s.bytesPerLine_
      THEN s
      ELSE [buildCommand(s, <<_ESC, OrdD, value>>, "bytesPerLine")
              EXCEPT !.bytesPerLine_ = value]

bytesPerLine_NoMemo(s, value) ==
  IF value < 0 \/ value + s.dotTab_ > _MAX_BYTES_PER_LINE
    THEN Raise(s, "ValueError", "bytesPerLine")
    ELSE [buildCommand(s, <<_ESC, OrdD, value>>, "bytesPerLine")
            EXCEPT !.bytesPerLine_ = value]

bytesPerLine(s, value) ==
  IF value < 0 \/ value + s.dotTab_ > _MAX_BYTES_PER_LINE
    THEN Raise(s, "ValueError", "bytesPerLine")
    ELSE IF value = s.bytesPerLine_
      THEN s
      ELSE [buildCommand(s, <<_ESC, OrdD, value>>, "bytesPerLine")
              EXCEPT !.bytesPerLine_ = value]

cut(s) == buildCommand(s, <<_ESC, OrdE>>, "cut")

line_BuildsFirst(s, value) ==
  bytesPerLine(buildCommand(s, <<_SYN>> \o value, "line"), Len(value))

line_SkipsByteCount(s, value) ==
  [buildCommand(s, <<_SYN>> \o value, "line")
     EXCEPT !.misframed =
              @ \/ (s.wire.on /\ Pending(s).bytesPerLine # Len(value))]

\* misframed: the device (if watched) will not hold the length of value as
\* bytes-per-line when it receives this line
line(s, value) ==
  LET b == bytesPerLine(s, Len(value))
  IN IF b.exc # "none" THEN b
     ELSE [buildCommand(b, <<_SYN>> \o value, "line")
             EXCEPT !.misframed =
                      @ \/ (b.wire.on /\ Pending(b).bytesPerLine # Len(value))]

chainMark(s) ==
  LET a == dotTab(s, 0)
      b == bytesPerLine(a, _MAX_BYTES_PER_LINE)
  IN line(b, Rep(153, _MAX_BYTES_PER_LINE))

skipLines_KeepsByteCount(s, value) ==
  IF value <= 0
    THEN Raise(s, "ValueError", "skipLines")
    ELSE buildCommand(s, Rep(_SYN, value), "skipLines")

skipLines(s, value) ==
  IF value <= 0
    THEN Raise(s, "ValueError", "skipLines")
    ELSE LET b == bytesPerLine(s, 0)
         IN IF b.exc # "none" THEN b
            ELSE buildCommand(b, Rep(_SYN, value), "skipLines")

initLabel(s) == buildCommand(s, Rep(0, 8), "initLabel")

\* ----------------------------------------------------- high-level functions
\* io is what the device does during the call: "ok", "writeFails" (tofile
\* raises) or "readFails" (read raises); each call is recorded in sends with
\* whether statusRequest was called since the call before it (or since the
\* last resetCommand) and whether it called dev.read(8)
sendCommand(s, io) ==
  LET t == [s EXCEPT !.asked = FALSE,
                     !.sends = Append(@, [asked |-> s.asked, read |-> FALSE])]
      reading(x) == [x EXCEPT !.sends[Len(x.sends)].read = TRUE]
  IN IF Len(s.cmd) = 0 THEN t
     ELSE IF \E i \in 1..Len(s.cmd) : s.cmd[i] \notin 0..255
       THEN Raise(t, "OverflowError", "array")
     ELSE IF io = "writeFails"
       THEN Raise(t, "IOError", "tofile")
     ELSE LET w == [t EXCEPT !.wrote = Append(@, [bytes |-> s.cmd, src |-> s.src]),
                             !.wire = Receive(@, s.cmd, s.src),
                             !.cmd = <<>>, !.src = <<>>]
          IN IF ~w.response THEN w
             ELSE LET r == reading([w EXCEPT !.response = FALSE])
                  IN IF io = "readFails"
                       THEN Raise(r, "IOError", "read")
                       ELSE [r EXCEPT !.reads = @ + 1]

getStatus(s, io) == sendCommand(statusRequest(s), io)

\* the margin optimization of rawPrintLabel: the leading-column loop
NoEmptyRow(lines) == \A i \in 1..Len(lines) : lines[i] # <<>>

FirstBytes(lines) == [i \in 1..Len(lines) |-> lines[i][1]]

RECURSIVE StripLeading_KeepsLastByte(_, _)
StripLeading_KeepsLastByte(lines, dottab) ==
  IF (\A i \in 1..Len(lines) : Len(lines[i]) > 1) /\ SeqMax(FirstBytes(lines)) = 0
    THEN StripLeading_KeepsLastByte([i \in 1..Len(lines) |-> Tail(lines[i])], dottab + 1)
    ELSE [lines |-> lines, dottab |-> dottab]

RECURSIVE StripLeading(_, _)
StripLeading(lines, dottab) ==
  IF NoEmptyRow(lines) /\ SeqMax(FirstBytes(lines)) = 0
    THEN StripLeading([i \in 1..Len(lines) |-> Tail(lines[i])], dottab + 1)
    ELSE [lines |-> lines, dottab |-> dottab]

StripTrailing_DropsLastByte(row) ==
  IF Len(row) > 0 THEN SubSeq(row, 1, Len(row) - 1) ELSE row

\* the trailing-zero loop, for one row
RECURSIVE StripTrailing(_)
StripTrailing(row) ==
  IF Len(row) > 0 /\ row[Len(row)] = 0
    THEN StripTrailing(SubSeq(row, 1, Len(row) - 1))
    ELSE row

\* "for line in lines: self.line(line)" over rows lo..hi, in row order; the
\* range is halved so that a long matrix does not nest one call per row
RECURSIVE EmitLines(_, _, _, _)
EmitLines(s, lines, lo, hi) ==
  IF lo > hi \/ s.exc # "none" THEN s
  ELSE IF lo = hi THEN line(s, lines[lo])
  ELSE LET mid == (lo + hi) \div 2
       IN EmitLines(EmitLines(s, lines, lo, mid), lines, mid + 1, hi)

BuildLabel_CallsInitLabel(s, lines, dottab, margin) ==
  LET a == tapeColor(initLabel(s), 0)
      b == IF a.exc # "none" THEN a ELSE dotTab(a, dottab)
      c == EmitLines(b, lines, 1, Len(lines))
      d == IF c.exc = "none" /\ margin > 0 THEN skipLines(c, margin) ELSE c
  IN IF d.exc # "none" THEN d ELSE statusRequest(d)

\* the builder calls of rawPrintLabel, after the matrix was optimized;
\* "self.initLabel" names the method without calling it and appends nothing
BuildLabel(s, lines, dottab, margin) ==
  LET a == tapeColor(s, 0)
      b == IF a.exc # "none" THEN a ELSE dotTab(a, dottab)
      c == EmitLines(b, lines, 1, Len(lines))
      d == IF c.exc = "none" /\ margin > 0 THEN skipLines(c, margin) ELSE c
  IN IF d.exc # "none" THEN d ELSE statusRequest(d)

\* max() of no first bytes raises ValueError before anything is built; each
\* call is recorded in chunks with the matrix it was given, the dot-tab it
\* computed and the rows as the leading-column loop left them
rawPrintLabel(s, lines, margin, io) ==
  IF Len(lines) = 0
    THEN Raise([s EXCEPT !.chunks = Append(@, [lines |-> lines, margin |-> margin,
                                               dottab |-> 0, rows |-> lines])],
               "ValueError", "max")
    ELSE LET o == StripLeading(lines, 0)
             rows == [i \in 1..Len(lines) |-> StripTrailing(o.lines[i])]
             c == [s EXCEPT !.chunks = Append(@, [lines |-> lines, margin |-> margin,
                                                  dottab |-> o.dottab, rows |-> o.lines])]
             b == BuildLabel(c, rows, o.dottab, margin)
         IN IF b.exc # "none" THEN b ELSE sendCommand(b, io)

RECURSIVE printLabel_MarginEveryChunk(_, _, _, _)
printLabel_MarginEveryChunk(s, lines, margin, io) ==
  IF Len(lines) > maxLines + 1
    THEN LET r == rawPrintLabel(s, SubSeq(lines, 1, maxLines), margin, io)
         IN IF r.exc # "none" THEN r
            ELSE printLabel_MarginEveryChunk(r, SubSeq(lines, maxLines + 1, Len(lines)),
                                             margin, io)
    ELSE rawPrintLabel(s, lines, margin, io)

RECURSIVE printLabel(_, _, _, _)
printLabel(s, lines, margin, io) ==
  IF Len(lines) > maxLines + 1
    THEN LET r == rawPrintLabel(s, SubSeq(lines, 1, maxLines), 0, io)
         IN IF r.exc # "none" THEN r
            ELSE printLabel(r, SubSeq(lines, maxLines + 1, Len(lines)), margin, io)
    ELSE rawPrintLabel(s, lines, margin, io)

\* ------------------------------------------------------------------ inputs
DotTabArgs == -1 .. _MAX_BYTES_PER_LINE + 1
BytesArgs == -1 .. _MAX_BYTES_PER_LINE + 1
TapeArgs == {-1, 0, 256}
SkipArgs == -1 .. MaxSkip
Margins == 0 .. MaxSkip
IOs == {"ok", "writeFails", "readFails"}

Zeros(n) == Rep(0, n)

\* rows handed to line()
LineArgs == {<<>>, <<1>>, Rep(255, _MAX_BYTES_PER_LINE),
             Rep(1, _MAX_BYTES_PER_LINE + 1)}

\* rows of the small matrices: empty, a single zero byte, leading and
\* trailing zero bytes, full width, full width of zero bytes, and two rows
\* wider than the tape
Rows == {<<>>, <<0>>, <<0, 1>>, <<1, 0>>,
         Zeros(_MAX_BYTES_PER_LINE - 1) \o <<1>>,
         Zeros(_MAX_BYTES_PER_LINE),
         Zeros(_MAX_BYTES_PER_LINE + 1),
         <<1>> \o Zeros(_MAX_BYTES_PER_LINE - 1) \o <<1>>}

Matrices == UNION {[1..n -> Rows] : n \in 0..MaxRows}

\* long matrices, around the batching limit of printLabel
BigSizes == {maxLines, maxLines + 1, maxLines + 2, maxLines + 50, 2 * maxLines + 1}

BigMatrix(n, pattern) ==
  [i \in 1..n |-> IF pattern = "ramp" THEN <<0, 1 + (i % 255)>> ELSE <<0>>]

BigMatrices == {BigMatrix(n, p) : n \in BigSizes, p \in {"ramp", "blank"}}

Job(op, lines, margin, io) == [op |-> op, lines |-> lines, margin |-> margin, io |-> io]

Jobs ==
  {Job(op, m, g, io) : op \in {"rawPrintLabel", "printLabel"}, m \in Matrices,
                       g \in Margins, io \in IOs}
  \cup {Job("printLabel", m, g, "ok") : m \in BigMatrices, g \in Margins \cup {DefaultMargin}}

\* a job before the job: one that prints, one that a builder call aborts and
\* one whose device write fails
WarmJobs ==
  {Job("rawPrintLabel", <<<<0, 1>>>>, 0, "ok"),
   Job("rawPrintLabel", <<Zeros(_MAX_BYTES_PER_LINE + 1)>>, 1, "ok"),
   Job("printLabel", <<<<1>>>>, 1, "writeFails")}

JobSeqs == {<<j>> : j \in Jobs} \cup {<<w, j>> : w \in WarmJobs, j \in Jobs}

\* matrices handed to the print calls between mid-level calls
FewMatrices == {<<<<0, 1>>>>, <<Zeros(_MAX_BYTES_PER_LINE + 1)>>}

\* --------------------------------------------------------------------- calls
NoCall == [op |-> "__init__", arg |-> 0, value |-> <<>>, lines |-> <<>>,
           margin |-> 0, io |-> "ok", exc |-> "none", at |-> "none",
           wrote |-> <<>>, reads |-> 0, sends |-> <<>>, chunks |-> <<>>,
           misframed |-> FALSE, pending |-> 0, added |-> 0, again |-> FALSE]

BuilderNames == {"dotTab", "tapeColor", "bytesPerLine", "line", "skipLines"}

\* the call left self as it was
Unchanged(r) ==
  /\ r.cmd = cmd
  /\ r.response = response
  /\ r.bytesPerLine_ = bytesPerLine_
  /\ r.dotTab_ = dotTab_

\* the call returned r: self takes r's fields and the call is recorded;
\* again marks a bytesPerLine call that repeats the call before it and
\* changes nothing
Commit(r, call) ==
  /\ cmd' = r.cmd
  /\ src' = r.src
  /\ response' = r.response
  /\ bytesPerLine_' = r.bytesPerLine_
  /\ dotTab_' = r.dotTab_
  /\ asked' = r.asked
  /\ wire' = r.wire
  /\ aborted' = IF r.cmd = <<>> THEN FALSE
                ELSE IF call.op \in {"rawPrintLabel", "printLabel"}
                        /\ r.exc = "ValueError" /\ r.at \in BuilderNames
                  THEN TRUE
                  ELSE aborted
  /\ LET c == [call EXCEPT !.exc = r.exc, !.at = r.at, !.wrote = r.wrote,
                            !.reads = r.reads, !.sends = r.sends,
                            !.misframed = r.misframed,
                            !.chunks = r.chunks,
                            !.pending = Len(cmd),
                            !.added = Len(r.cmd) - Len(cmd)]
     IN lastCall' = [c EXCEPT !.again = /\ call.op = "bytesPerLine"
                                        /\ Unchanged(r)
                                        /\ c = [lastCall EXCEPT !.again = FALSE]]

Room == Len(cmd) <= MaxCmd

Init ==
  /\ cmd = <<>>
  /\ src = <<>>
  /\ response = FALSE
  /\ bytesPerLine_ = None
  /\ dotTab_ = 0
  /\ aborted = FALSE
  /\ asked = FALSE
  /\ wire = Unwatched
  /\ frame = NoFrame
  /\ lastCall = NoCall
  /\ todo = <<>>

SendCommand ==
  /\ \E io \in IOs :
       Commit(sendCommand(Self, io), [NoCall EXCEPT !.op = "sendCommand", !.io = io])
  /\ UNCHANGED <<todo, frame>>

ResetCommand ==
  /\ Commit(resetCommand(Self), [NoCall EXCEPT !.op = "resetCommand"])
  /\ UNCHANGED <<todo, frame>>

StatusRequest ==
  /\ Room
  /\ Commit(statusRequest(Self), [NoCall EXCEPT !.op = "statusRequest"])
  /\ UNCHANGED <<todo, frame>>

DotTab ==
  /\ Room
  /\ \E v \in DotTabArgs :
       Commit(dotTab(Self, v), [NoCall EXCEPT !.op = "dotTab", !.arg = v])
  /\ UNCHANGED <<todo, frame>>

TapeColor ==
  /\ Room
  /\ \E v \in TapeArgs :
       Commit(tapeColor(Self, v), [NoCall EXCEPT !.op = "tapeColor", !.arg = v])
  /\ UNCHANGED <<todo, frame>>

BytesPerLine ==
  /\ Room
  /\ \E v \in BytesArgs :
       Commit(bytesPerLine(Self, v), [NoCall EXCEPT !.op = "bytesPerLine", !.arg = v])
  /\ UNCHANGED <<todo, frame>>

Cut ==
  /\ Room
  /\ Commit(cut(Self), [NoCall EXCEPT !.op = "cut"])
  /\ UNCHANGED <<todo, frame>>

Line ==
  /\ Room
  /\ \E v \in LineArgs :
       Commit(line(Self, v), [NoCall EXCEPT !.op = "line", !.value = v])
  /\ UNCHANGED <<todo, frame>>

ChainMark ==
  /\ Room
  /\ Commit(chainMark(Self), [NoCall EXCEPT !.op = "chainMark"])
  /\ UNCHANGED <<todo, frame>>

SkipLines ==
  /\ Room
  /\ \E v \in SkipArgs :
       Commit(skipLines(Self, v), [NoCall EXCEPT !.op = "skipLines", !.arg = v])
  /\ UNCHANGED <<todo, frame>>

InitLabel ==
  /\ Room
  /\ Commit(initLabel(Self), [NoCall EXCEPT !.op = "initLabel"])
  /\ UNCHANGED <<todo, frame>>

GetStatus ==
  /\ Room
  /\ \E io \in IOs :
       Commit(getStatus(Self, io), [NoCall EXCEPT !.op = "getStatus", !.io = io])
  /\ UNCHANGED <<todo, frame>>

RawPrintLabelCall(lines, margin, io) ==
  Commit(rawPrintLabel(Self, lines, margin, io),
         [NoCall EXCEPT !.op = "rawPrintLabel", !.lines = lines,
                        !.margin = margin, !.io = io])

PrintLabelCall(lines, margin, io) ==
  Commit(printLabel(Self, lines, margin, io),
         [NoCall EXCEPT !.op = "printLabel", !.lines = lines,
                        !.margin = margin, !.io = io])

RawPrintLabel ==
  /\ Room
  /\ \E m \in FewMatrices, io \in IOs : RawPrintLabelCall(m, 1, io)
  /\ UNCHANGED <<todo, frame>>

PrintLabel ==
  /\ Room
  /\ \E m \in FewMatrices : PrintLabelCall(m, 1, "ok")
  /\ UNCHANGED <<todo, frame>>

Next ==
  \/ SendCommand
  \/ ResetCommand
  \/ StatusRequest
  \/ DotTab
  \/ TapeColor
  \/ BytesPerLine
  \/ Cut
  \/ Line
  \/ ChainMark
  \/ SkipLines
  \/ InitLabel
  \/ GetStatus
  \/ RawPrintLabel
  \/ PrintLabel

Spec == Init /\ [][Next]_vars

\* --------------------------------------------------------------- print jobs
\* a fresh labeler and the jobs its caller submits, one after the other
InitPrint ==
  /\ cmd = <<>>
  /\ src = <<>>
  /\ response = FALSE
  /\ bytesPerLine_ = None
  /\ dotTab_ = 0
  /\ aborted = FALSE
  /\ asked = FALSE
  /\ wire = Unwatched
  /\ frame = NoFrame
  /\ lastCall = NoCall
  /\ todo \in JobSeqs

RunRawPrintLabel ==
  /\ todo # <<>>
  /\ Head(todo).op = "rawPrintLabel"
  /\ RawPrintLabelCall(Head(todo).lines, Head(todo).margin, Head(todo).io)
  /\ todo' = Tail(todo)
  /\ UNCHANGED frame

RunPrintLabel ==
  /\ todo # <<>>
  /\ Head(todo).op = "printLabel"
  /\ PrintLabelCall(Head(todo).lines, Head(todo).margin, Head(todo).io)
  /\ todo' = Tail(todo)
  /\ UNCHANGED frame

NextPrint == RunRawPrintLabel \/ RunPrintLabel

SpecPrint == InitPrint /\ [][NextPrint]_vars

\* ------------------------------------------------------- the watched device
\* calls on a labeler whose device is watched: what the device holds is
\* followed through every write
CallOf(op, arg, value, io) ==
  [NoCall EXCEPT !.op = op, !.arg = arg, !.value = value, !.io = io]

StreamCalls ==
  {CallOf("dotTab", v, <<>>, "ok") : v \in {0, 1, _MAX_BYTES_PER_LINE + 1}}
  \cup {CallOf("bytesPerLine", v, <<>>, "ok") : v \in {0, 1, _MAX_BYTES_PER_LINE}}
  \cup {CallOf("line", 0, v, "ok") : v \in {<<>>, <<1>>, Rep(1, _MAX_BYTES_PER_LINE)}}
  \cup {CallOf("sendCommand", 0, <<>>, io) : io \in {"ok", "writeFails"}}
  \cup {CallOf(op, 0, <<>>, "ok") : op \in {"tapeColor", "cut", "statusRequest", "chainMark"}}
  \cup {CallOf("skipLines", 1, <<>>, "ok")}

\* the method c names, called on s with c's arguments
Apply(s, c) ==
  CASE c.op = "dotTab" -> dotTab(s, c.arg)
    [] c.op = "bytesPerLine" -> bytesPerLine(s, c.arg)
    [] c.op = "tapeColor" -> tapeColor(s, c.arg)
    [] c.op = "line" -> line(s, c.value)
    [] c.op = "skipLines" -> skipLines(s, c.arg)
    [] c.op = "cut" -> cut(s)
    [] c.op = "statusRequest" -> statusRequest(s)
    [] c.op = "chainMark" -> chainMark(s)
    [] c.op = "sendCommand" -> sendCommand(s, c.io)

InitStream ==
  /\ cmd = <<>>
  /\ src = <<>>
  /\ response = FALSE
  /\ bytesPerLine_ = None
  /\ dotTab_ = 0
  /\ aborted = FALSE
  /\ asked = FALSE
  /\ wire = Fresh
  /\ frame = NoFrame
  /\ lastCall = NoCall
  /\ todo = <<>>

Call ==
  /\ \E c \in StreamCalls :
       /\ c.op = "sendCommand" \/ Room
       /\ Commit(Apply(Self, c), c)
  /\ UNCHANGED <<todo, frame>>

\* any sequence of builder calls and sendCommand, without resetCommand
NextStream == Call

SpecStream == InitStream /\ [][NextStream]_vars

\* the same with resetCommand
NextReset == Call \/ ResetCommand

SpecReset == InitStream /\ [][NextReset]_vars

\* ------------------------------------------------- print jobs, step by step
\* printLabel on a fresh labeler whose device answers every write and read,
\* one loop test or loop body per step
StepJobs ==
  {Job("printLabel", m, g, "ok") : m \in Matrices, g \in Margins}
  \cup {Job("printLabel", BigMatrix(n, "ramp"), 1, "ok") :
          n \in {maxLines + 1, maxLines + 2, 2 * maxLines + 1}}
  \cup {Job("printLabel", BigMatrix(maxLines + 2, "blank"), 0, "ok")}

InitSteps ==
  /\ cmd = <<>>
  /\ src = <<>>
  /\ response = FALSE
  /\ bytesPerLine_ = None
  /\ dotTab_ = 0
  /\ aborted = FALSE
  /\ asked = FALSE
  /\ wire = Unwatched
  /\ frame = NoFrame
  /\ lastCall = NoCall
  /\ todo \in {<<j>> : j \in StepJobs}

Labeler_ == <<cmd, src, response, bytesPerLine_, dotTab_, aborted, asked, wire>>

\* the caller calls printLabel(lines, margin)
StartPrintLabel ==
  /\ frame.pc = "idle"
  /\ todo # <<>>
  /\ frame' = [NoFrame EXCEPT !.pc = "printLabel", !.rest = Head(todo).lines,
                              !.margin = Head(todo).margin]
  /\ lastCall' = [NoCall EXCEPT !.op = "printLabel", !.lines = Head(todo).lines,
                                !.margin = Head(todo).margin]
  /\ todo' = Tail(todo)
  /\ UNCHANGED Labeler_

\* rawPrintLabel is entered with lines and margin
Enter(lines, margin, more) ==
  /\ frame' = [frame EXCEPT !.pc = "leading", !.lines = lines, !.chunkMargin = margin,
                            !.dottab = 0, !.row = 0, !.more = more]
  /\ lastCall' = [lastCall EXCEPT !.chunks = Append(@, [lines |-> lines, margin |-> margin,
                                                        dottab |-> 0, rows |-> lines])]

\* "while len(lines) > self.maxLines + 1": the first maxLines rows go to
\* rawPrintLabel with margin 0, or all the rows left with the margin
ChunkTest ==
  /\ frame.pc = "printLabel"
  /\ IF Len(frame.rest) > maxLines + 1
       THEN Enter(SubSeq(frame.rest, 1, maxLines), 0, TRUE)
       ELSE Enter(frame.rest, frame.margin, FALSE)
  /\ UNCHANGED <<Labeler_, todo>>

\* "while [] not in lines and max(line[0] for line in lines) == 0": one
\* column is stripped, or the loop ends; max() of no rows raises
LeadingTest ==
  /\ frame.pc = "leading"
  /\ IF frame.lines = <<>>
       THEN /\ frame' = [frame EXCEPT !.pc = "raised"]
            /\ lastCall' = [lastCall EXCEPT !.exc = "ValueError", !.at = "max"]
       ELSE IF NoEmptyRow(frame.lines) /\ SeqMax(FirstBytes(frame.lines)) = 0
         THEN /\ frame' = [frame EXCEPT
                             !.lines = [i \in 1..Len(frame.lines) |-> Tail(frame.lines[i])],
                             !.dottab = @ + 1]
              /\ UNCHANGED lastCall
         ELSE /\ frame' = [frame EXCEPT !.pc = "trailing", !.row = 1]
              /\ lastCall' = [lastCall EXCEPT
                                !.chunks[Len(lastCall.chunks)].dottab = frame.dottab,
                                !.chunks[Len(lastCall.chunks)].rows = frame.lines]
  /\ UNCHANGED <<Labeler_, todo>>

DropLast_KeepsRow(row) == row

\* "del line[-1]"
DropLast(row) == SubSeq(row, 1, Len(row) - 1)

\* "for line in lines: while len(line) > 0 and line[-1] == 0: del line[-1]":
\* one byte is deleted, or the loop goes on to the next row, or it ends
TrailingStep ==
  /\ frame.pc = "trailing"
  /\ IF frame.row > Len(frame.lines)
       THEN frame' = [frame EXCEPT !.pc = "build"]
       ELSE LET row == frame.lines[frame.row]
            IN IF Len(row) > 0 /\ row[Len(row)] = 0
                 THEN frame' = [frame EXCEPT !.lines[frame.row] = DropLast(row)]
                 ELSE frame' = [frame EXCEPT !.row = @ + 1]
  /\ UNCHANGED <<Labeler_, lastCall, todo>>

\* the builder calls of rawPrintLabel and its sendCommand; what the job wrote
\* and read so far is kept in lastCall
BuildAndSend ==
  /\ frame.pc = "build"
  /\ LET s == [Self EXCEPT !.wrote = lastCall.wrote, !.reads = lastCall.reads,
                           !.sends = lastCall.sends, !.chunks = lastCall.chunks]
         b == BuildLabel(s, frame.lines, frame.dottab, frame.chunkMargin)
         r == IF b.exc # "none" THEN b ELSE sendCommand(b, "ok")
     IN /\ Commit(r, lastCall)
        /\ frame' = [frame EXCEPT !.pc = IF r.exc = "none" THEN "return" ELSE "raised"]
  /\ UNCHANGED todo

\* rawPrintLabel returns: "del lines[0:self.maxLines]" and the loop test
\* again, or printLabel returns
Return ==
  /\ frame.pc = "return"
  /\ IF frame.more
       THEN frame' = [frame EXCEPT !.pc = "printLabel",
                                   !.rest = SubSeq(@, maxLines + 1, Len(@))]
       ELSE frame' = [frame EXCEPT !.pc = "done"]
  /\ UNCHANGED <<Labeler_, lastCall, todo>>

\* the steps that test a loop condition or run a loop body
LoopSteps == StartPrintLabel \/ ChunkTest \/ LeadingTest \/ TrailingStep \/ Return

NextSteps == LoopSteps \/ BuildAndSend

\* the interpreter runs the call as long as it has a step to take: the loop
\* steps are weakly fair, and so is BuildAndSend, which can be taken exactly
\* when the call is at "build" and leaves it: the call is not there forever
SpecSteps ==
  InitSteps /\ [][NextSteps]_vars /\ WF_vars(LoopSteps) /\ []<>(frame.pc # "build")

\* ------------------------------------------------------------ device lookup
DEV_CLASS == 3
DEV_VENDOR == 2338
DEV_PRODUCT == 4098

\* os.makedev for a major below 4096 and a minor below 256
makedev(major, minor) == major * 256 + minor

\* os.path.join(dir, name), a path being the sequence of its components
join(dir, name) == Append(dir, name)

\* the name of a bus entry matches the pattern built from the three ids
PatternMatches(name, classID, vendorID, productID) ==
  name = <<classID, vendorID, productID>>

\* what a return or a raise of getDeviceFile leaves to its caller; via names
\* the step that produced the path
Returned(path, via) == [exc |-> "none", ret |-> "path", path |-> path, via |-> via]
ReturnedNone == [exc |-> "none", ret |-> "None", path |-> <<>>, via |-> "none"]
Raised(e, where) == [exc |-> e, ret |-> "raised", path |-> <<>>, via |-> where]

\* os.stat(path) on the files of /dev: the indexes of the files at path
FilesAt(fs, path) == {i \in 1..Len(fs.dev) : fs.dev[i].path = path}

\* os.path.exists of the /dev/char/<major>:<minor> symlink: it is there and
\* its target exists
CharLinks(fs, devnums) == {l \in fs.char : l.nums = devnums /\ ~l.dangling}

\* the os.walk of /dev from file i on: the first file whose os.stat raises
\* or whose device number is devnum ends it
RECURSIVE WalkDev(_, _, _)
WalkDev(fs, devnum, i) ==
  IF i > Len(fs.dev) THEN ReturnedNone
  ELSE IF fs.dev[i].stat # "ok" THEN Raised("OSError", "scan")
  ELSE IF fs.dev[i].rdev = devnum THEN Returned(fs.dev[i].path, "scan")
  ELSE WalkDev(fs, devnum, i + 1)

getDeviceFile_CandidateFirst(fs, classID, vendorID, productID) ==
  LET matching == {i \in 1..Len(fs.bus) :
                     PatternMatches(fs.bus[i].name, classID, vendorID, productID)}
  IN IF matching = {} THEN ReturnedNone
     ELSE LET entry == fs.bus[CHOOSE i \in matching : \A j \in matching : i <= j]
          IN IF entry.hidraw = <<>> THEN Raised("IndexError", "hidraw")
             ELSE LET devname == entry.hidraw[1]
                      devnums == entry.dev
                      devnum == makedev(devnums[1], devnums[2])
                      links == CharLinks(fs, devnums)
                      filepath == join(<<"dev">>, devname)
                      at == FilesAt(fs, filepath)
                  IN IF at = {} \/ \E i \in at : fs.dev[i].stat # "ok"
                       THEN Raised("OSError", "name")
                     ELSE IF \E i \in at : fs.dev[i].rdev = devnum
                       THEN Returned(filepath, "name")
                     ELSE IF links # {}
                       THEN Returned((CHOOSE l \in links : TRUE).target, "char")
                     ELSE WalkDev(fs, devnum, 1)

\* fs is what the file system holds: bus, the entries of /sys/bus/hid/devices
\* in listing order, each with its name, the listing of its hidraw directory
\* and the numbers in its dev file; char, the symlinks of /dev/char; dev,
\* the files of /dev in the order os.walk visits them
getDeviceFile(fs, classID, vendorID, productID) ==
  LET matching == {i \in 1..Len(fs.bus) :
                     PatternMatches(fs.bus[i].name, classID, vendorID, productID)}
  IN IF matching = {} THEN ReturnedNone
     ELSE LET entry == fs.bus[CHOOSE i \in matching : \A j \in matching : i <= j]
          IN IF entry.hidraw = <<>> THEN Raised("IndexError", "hidraw")
             ELSE LET devname == entry.hidraw[1]
                      devnums == entry.dev
                      devnum == makedev(devnums[1], devnums[2])
                      links == CharLinks(fs, devnums)
                      filepath == join(<<"dev">>, devname)
                      at == FilesAt(fs, filepath)
                  IN IF links # {}
                       THEN Returned((CHOOSE l \in links : TRUE).target, "char")
                     ELSE IF at = {} \/ \E i \in at : fs.dev[i].stat # "ok"
                       THEN Raised("OSError", "name")
                     ELSE IF \E i \in at : fs.dev[i].rdev = devnum
                       THEN Returned(filepath, "name")
                     ELSE WalkDev(fs, devnum, 1)

\* the file systems tried: the labeler's numbers are 240:0
Major == 240
DevNums == <<Major, 0>>
OtherNums == <<Major, 1>>

BusEntry(name, hidraw, dev) == [name |-> name, hidraw |-> hidraw, dev |-> dev]

Labeler(hidraw) == BusEntry(<<DEV_CLASS, DEV_VENDOR, DEV_PRODUCT>>, hidraw, DevNums)

OtherDevice == BusEntry(<<DEV_CLASS, DEV_VENDOR, DEV_PRODUCT + 1>>, <<"hidraw1">>, OtherNums)

HidrawListings == {<<"hidraw0">>, <<"hidraw1", "hidraw0">>, <<>>}

BusListings ==
  {<<>>, <<OtherDevice>>}
  \cup {<<Labeler(h)>> : h \in HidrawListings}
  \cup {<<OtherDevice, Labeler(h)>> : h \in HidrawListings}
  \cup {<<Labeler(h), Labeler(<<"hidraw1">>)>> : h \in HidrawListings}

CharLink(nums, target, dangling) == [nums |-> nums, target |-> target, dangling |-> dangling]

CharListings ==
  {{}, {CharLink(OtherNums, <<"dev", "hidraw1">>, FALSE)},
   {CharLink(DevNums, <<"dev", "hidraw0">>, FALSE)},
   {CharLink(DevNums, <<"dev", "usb", "hiddev0">>, FALSE)},
   {CharLink(DevNums, <<"dev", "gone">>, TRUE)}}

DevFile(path, stat, rdev) == [path |-> path, stat |-> stat, rdev |-> rdev]

\* /dev/hidraw0: missing, the labeler, another device, or a dangling symlink
Hidraw0Files ==
  {<<>>, <<DevFile(<<"dev", "hidraw0">>, "ok", makedev(Major, 0))>>,
   <<DevFile(<<"dev", "hidraw0">>, "ok", makedev(Major, 1))>>,
   <<DevFile(<<"dev", "hidraw0">>, "ENOENT", 0)>>}

DevListings ==
  {stale \o h0 \o <<DevFile(<<"dev", "hidraw1">>, "ok", makedev(Major, 1)),
                    DevFile(<<"dev", "null">>, "ok", makedev(1, 3))>> \o usb :
     stale \in {<<>>, <<DevFile(<<"dev", "core">>, "ENOENT", 0)>>},
     h0 \in Hidraw0Files,
     usb \in {<<>>, <<DevFile(<<"dev", "usb", "hiddev0">>, "ok", makedev(Major, 0))>>}}

FileSystems ==
  {[bus |-> b, char |-> c, dev |-> d] :
     b \in BusListings, c \in CharListings, d \in DevListings}

Lookup(fs) == [op |-> "getDeviceFile", fs |-> fs]

InitDevice ==
  /\ cmd = <<>>
  /\ src = <<>>
  /\ response = FALSE
  /\ bytesPerLine_ = None
  /\ dotTab_ = 0
  /\ aborted = FALSE
  /\ asked = FALSE
  /\ wire = Unwatched
  /\ frame = NoFrame
  /\ lastCall = NoCall
  /\ todo \in {<<Lookup(fs)>> : fs \in FileSystems}

GetDeviceFile ==
  /\ todo # <<>>
  /\ Head(todo).op = "getDeviceFile"
  /\ LET r == getDeviceFile(Head(todo).fs, DEV_CLASS, DEV_VENDOR, DEV_PRODUCT)
     IN lastCall' = [op |-> "getDeviceFile", fs |-> Head(todo).fs, exc |-> r.exc,
                     ret |-> r.ret, path |-> r.path, via |-> r.via]
  /\ todo' = Tail(todo)
  /\ UNCHANGED <<cmd, src, response, bytesPerLine_, dotTab_, aborted, asked, wire, frame>>

NextDevice == GetDeviceFile

SpecDevice == InitDevice /\ [][NextDevice]_vars

\* --------------------------------------------------------------------- main
\* main is modelled by the calls it makes, recorded in steps in the order
\* it makes them; the bitmaps of text, barcode and picture are not drawn,
\* the QR bitmap is (as the set of points painted)

\* args: text, u, v, qr, c, picture, m.  env: what main finds outside args:
\* config (the config file), font (args.u names a file), USE_QR, USE_BARCODE,
\* qr_text (the lines the QR encoder returns), fs (the file system), open
\* (what open(dev, 'rb+') does)
Start(args) ==
  [exc |-> "none", msg |-> "none", steps |-> <<>>, labeltext |-> args.text,
   bitmaps |-> <<>>, qr_scale |-> 0, qr_offset |-> 0, painted |-> {}]

Step(m, name) == [m EXCEPT !.steps = Append(@, name)]

raiseException(m, message) ==
  [m EXCEPT !.exc = "DymoPrintException", !.msg = message]

read_config(m, env) ==
  IF env.config = "absent" THEN Step(Step(m, "read_config"), "write_config")
  ELSE IF env.config = "invalid"
    THEN raiseException(Step(m, "read_config"), "config file not valid")
  ELSE Step(m, "read_config")

\* "if args.u is not None"
UserFont(m, args, env) ==
  IF m.exc # "none" \/ args.u = "None" \/ env.font THEN m
  ELSE raiseException(m, "file not found")

CheckContent_NoConflict(m, args, env) ==
  IF m.exc # "none" THEN m
  ELSE IF args.qr /\ ~env.USE_QR THEN raiseException(m, "e_qrcode")
  ELSE IF args.c # "False" /\ ~env.USE_BARCODE THEN raiseException(m, "e_barcode")
  ELSE m

\* "check if barcode, qrcode or text should be printed"
CheckContent(m, args, env) ==
  IF m.exc # "none" THEN m
  ELSE IF args.qr /\ ~env.USE_QR THEN raiseException(m, "e_qrcode")
  ELSE IF args.c # "False" /\ ~env.USE_BARCODE THEN raiseException(m, "e_barcode")
  ELSE IF args.c # "False" /\ args.qr
    THEN raiseException(m, "can not print both QR and Barcode")
  ELSE m

scaling_OneMore(pix, sc) ==
  {<<pix[1] + i, pix[2] + j>> : i \in 0..sc, j \in 0..sc}

scaling(pix, sc) ==
  {<<pix[1] + i, pix[2] + j>> : i \in 0..(sc - 1), j \in 0..(sc - 1)}

\* line[j] == '1' for line i of qr_text (i and j count from 0)
ModuleOn(qr_text, i, j) ==
  IF qr_text.modules = "all" THEN TRUE ELSE (i + j) % 2 = 0

\* the QR branch; qr_text has n lines of n characters
RenderQR(m, env) ==
  LET a == [Step(m, "QRCode") EXCEPT !.labeltext = Tail(@)]
      n == env.qr_text.n
      labelheight == _MAX_BYTES_PER_LINE * 8
      qr_scale == labelheight \div n
      qr_offset == (labelheight - n * qr_scale) \div 2
      b == [a EXCEPT !.qr_scale = qr_scale, !.qr_offset = qr_offset]
  IN IF qr_scale = 0 THEN raiseException(b, "too much information")
     ELSE [Step(b, "Image.new")
             EXCEPT !.painted =
                      UNION {scaling(<<j * qr_scale, i * qr_scale + qr_offset>>, qr_scale) :
                               <<i, j>> \in {ij \in (0..(n - 1)) \X (0..(n - 1)) :
                                              ModuleOn(env.qr_text, ij[1], ij[2])}},
                    !.bitmaps = Append(@, "qr")]

RenderBarcode(m) ==
  [Step([m EXCEPT !.labeltext = Tail(@)], "barcode.get")
     EXCEPT !.bitmaps = Append(@, "barcode")]

\* "if args.qr: ... elif args.c: ..."
RenderCode(m, args, env) ==
  IF m.exc # "none" THEN m
  ELSE IF args.qr THEN RenderQR(m, env)
  ELSE IF args.c # "False" THEN RenderBarcode(m)
  ELSE m

\* "if labeltext:"
RenderText(m) ==
  IF m.exc # "none" \/ m.labeltext = <<>> THEN m
  ELSE [Step(m, "ImageFont.truetype") EXCEPT !.bitmaps = Append(@, "text")]

\* "if args.picture:"
RenderPicture(m, args) ==
  IF m.exc # "none" \/ args.picture = "None" THEN m
  ELSE [Step(m, "Image.open") EXCEPT !.bitmaps = Append(@, "picture")]

\* "if len(bitmaps) > 1:" and the conversion to the label matrix
Compose(m) ==
  IF m.exc # "none" THEN m
  ELSE Step(IF Len(m.bitmaps) > 1 THEN Step(m, "paste") ELSE m, "transpose")

\* "print or show the label"
Output(m, args, env) ==
  IF m.exc # "none" THEN m
  ELSE IF args.v THEN Step(m, "show")
  ELSE LET dev == getDeviceFile(env.fs, DEV_CLASS, DEV_VENDOR, DEV_PRODUCT)
           a == Step(m, "getDeviceFile")
       IN IF dev.exc # "none" THEN [a EXCEPT !.exc = dev.exc, !.msg = "getDeviceFile"]
          ELSE IF dev.ret = "None" THEN raiseException(a, "could not be found")
          ELSE IF env.open = "IOError"
            THEN raiseException(Step(a, "open"), "access_error")
          ELSE Step(Step(a, "open"), "printLabel")

main(args, env) ==
  LET a == read_config(Start(args), env)
      b == CheckContent(UserFont(a, args, env), args, env)
      c == RenderPicture(RenderText(RenderCode(b, args, env)), args)
  IN Output(Compose(c), args, env)


Args(text, u, v, qr, c, picture) ==
  [text |-> text, u |-> u, v |-> v, qr |-> qr, c |-> c, picture |-> picture]

Env(config, font, useQR, useBarcode, qr_text, fs, open) ==
  [config |-> config, font |-> font, USE_QR |-> useQR, USE_BARCODE |-> useBarcode,
   qr_text |-> qr_text, fs |-> fs, open |-> open]

QrText(n, modules) == [n |-> n, modules |-> modules]

\* the labeler is at /dev/hidraw0; no device at all
Plugged ==
  [bus |-> <<Labeler(<<"hidraw0">>)>>, char |-> {},
   dev |-> <<DevFile(<<"dev", "hidraw0">>, "ok", makedev(Major, 0))>>]

Unplugged == [bus |-> <<>>, char |-> {}, dev |-> <<>>]

Texts == {<<"a">>, <<"a", "b">>}

\* a QR code of every size with every module set, printed alone
QrRuns ==
  {[op |-> "main", args |-> Args(<<"a">>, "None", FALSE, TRUE, "False", "None"),
    env |-> Env("valid", TRUE, TRUE, TRUE, QrText(n, "all"), Plugged, "ok")] :
     n \in 1..MaxModules}

\* every combination of content requested and back ends present
ContentRuns ==
  {[op |-> "main", args |-> Args(text, u, v, qr, c, picture),
    env |-> Env(config, u # "missing.ttf", useQR, useBarcode,
                QrText(21, "checkered"), Plugged, "ok")] :
     text \in Texts, u \in {"None", "font.ttf", "missing.ttf"}, v \in BOOLEAN,
     qr \in BOOLEAN, c \in {"False", "code128"}, picture \in {"None", "logo.png"},
     config \in {"valid", "absent", "invalid"},
     useQR \in BOOLEAN, useBarcode \in BOOLEAN}

\* every way the device can be missing or closed to the user
DeviceRuns ==
  {[op |-> "main", args |-> Args(<<"a">>, "None", FALSE, qr, c, "None"),
    env |-> Env("valid", TRUE, TRUE, TRUE, QrText(21, "all"), fs, open)] :
     qr \in BOOLEAN, c \in {"False", "code128"},
     fs \in {Plugged, Unplugged, [Plugged EXCEPT !.dev = <<>>]},
     open \in {"ok", "IOError"}}

MainRuns == QrRuns \cup ContentRuns \cup DeviceRuns

InitMain ==
  /\ cmd = <<>>
  /\ src = <<>>
  /\ response = FALSE
  /\ bytesPerLine_ = None
  /\ dotTab_ = 0
  /\ aborted = FALSE
  /\ asked = FALSE
  /\ wire = Unwatched
  /\ frame = NoFrame
  /\ lastCall = NoCall
  /\ todo \in {<<r>> : r \in MainRuns}

Main ==
  /\ todo # <<>>
  /\ Head(todo).op = "main"
  /\ LET r == main(Head(todo).args, Head(todo).env)
     IN lastCall' = [op |-> "main", args |-> Head(todo).args, env |-> Head(todo).env,
                     exc |-> r.exc, msg |-> r.msg, steps |-> r.steps,
                     bitmaps |-> r.bitmaps, qr_scale |-> r.qr_scale,
                     qr_offset |-> r.qr_offset, painted |-> r.painted]
  /\ todo' = Tail(todo)
  /\ UNCHANGED <<cmd, src, response, bytesPerLine_, dotTab_, aborted, asked, wire, frame>>

NextMain == Main

SpecMain == InitMain /\ [][NextMain]_vars

\* ------------------------------------------------------------------- claims
Ok(c) == c.exc = "none"

\* C1: for every d in 0..8 and every b >= 0, dotTab(d) raises no error and
\* the bytesPerLine(b) that follows it raises no error iff d + b <= 8.
C1_DotTabThenBytesPerLine ==
  [][ /\ (lastCall'.op = "dotTab" /\ lastCall'.arg \in 0..8 => Ok(lastCall'))
      /\ (/\ lastCall.op = "dotTab" /\ Ok(lastCall)
          /\ lastCall'.op = "bytesPerLine" /\ lastCall'.arg >= 0
          => (Ok(lastCall') <=> lastCall.arg + lastCall'.arg <= 8)) ]_vars

\* dotTab(5) is the last command of the buffer and bytesPerLine(4) raised
C1_Witness ==
  /\ cmd = <<_ESC, OrdB, 5>>
  /\ lastCall.op = "bytesPerLine" /\ lastCall.arg = 4
  /\ lastCall.exc = "ValueError"

\* two successful bytesPerLine calls in a row with the same value
SameBytesPerLineTwice ==
  /\ lastCall.op = "bytesPerLine" /\ Ok(lastCall)
  /\ lastCall'.op = "bytesPerLine" /\ Ok(lastCall')
  /\ lastCall'.arg = lastCall.arg

\* C2 as stated: bytesPerLine(n) called twice in a row with the same valid n
\* appends exactly one ESC 'D' n command (3 bytes) over the two calls, and
\* the second call leaves the buffer and the memo unchanged.
C2_ExactlyOneCommand ==
  [][ SameBytesPerLineTwice
      => /\ lastCall.added + lastCall'.added = 3
         /\ cmd' = cmd /\ bytesPerLine_' = bytesPerLine_ ]_vars

\* C2 amended: a successful bytesPerLine(n) appends ESC 'D' n exactly when n
\* is not the memoized value and nothing otherwise; so two calls in a row
\* with the same n append at most one command (one when n was not memoized
\* before the first call, none when it was), and the second call leaves the
\* buffer and the memo unchanged.
C2_AtMostOneCommand ==
  [][ /\ (lastCall'.op = "bytesPerLine" /\ Ok(lastCall')
          => /\ bytesPerLine_' = lastCall'.arg
             /\ IF bytesPerLine_ = lastCall'.arg
                  THEN cmd' = cmd
                  ELSE cmd' = cmd \o <<_ESC, OrdD, lastCall'.arg>>)
      /\ (SameBytesPerLineTwice
          => /\ lastCall.added \in {0, 3} /\ lastCall'.added = 0
             /\ cmd' = cmd /\ bytesPerLine_' = bytesPerLine_) ]_vars

\* a bytesPerLine(n) that repeats a bytesPerLine(n) which itself appended
\* nothing: the two calls together appended no command
C2_Witness ==
  /\ lastCall.op = "bytesPerLine" /\ Ok(lastCall)
  /\ lastCall.added = 0 /\ lastCall.again
  /\ bytesPerLine_ = lastCall.arg

PrintCall == lastCall.op \in {"rawPrintLabel", "printLabel"}

\* the length of the shortest row of a non-empty matrix
MinLen(lines) ==
  CHOOSE n \in {Len(lines[i]) : i \in 1..Len(lines)} :
    \A i \in 1..Len(lines) : Len(lines[i]) >= n

ZeroColumns(lines, k) ==
  \A i \in 1..Len(lines) : \A j \in 1..k : lines[i][j] = 0

\* k: the first k byte-columns are zero in every row and the next one is not
\* (or some row has no next byte)
LeadingZeroColumns(lines) ==
  CHOOSE k \in 0..MinLen(lines) :
    /\ ZeroColumns(lines, k)
    /\ (k = MinLen(lines) \/ ~ZeroColumns(lines, k + 1))

\* the chunk's dot-tab is k and its rows lost exactly k leading bytes
StrippedByK(c) ==
  LET k == LeadingZeroColumns(c.lines)
  IN /\ c.dottab = k
     /\ Len(c.rows) = Len(c.lines)
     /\ \A i \in 1..Len(c.lines) :
          c.rows[i] = SubSeq(c.lines[i], k + 1, Len(c.lines[i]))

\* bytes of the j-th device write of the last call that the call itself built
Built(j) ==
  LET w == lastCall.wrote[j].bytes
  IN IF j = 1 THEN SubSeq(w, lastCall.pending + 1, Len(w)) ELSE w

\* in a print call that returned, write j carries the dot-tab of chunk j
DotTabEmitted ==
  Ok(lastCall) =>
    /\ Len(lastCall.wrote) = Len(lastCall.chunks)
    /\ \A j \in 1..Len(lastCall.chunks) :
         SubSeq(Built(j), 4, 6) = <<_ESC, OrdB, lastCall.chunks[j].dottab>>

\* C3 as stated: for a matrix whose first k byte-columns are zero in every
\* row the dot-tab emitted is k and every row loses exactly k leading bytes,
\* and no column is stripped when that would leave a row empty.
C3_NeverLeavesRowEmpty ==
  PrintCall =>
    /\ \A j \in 1..Len(lastCall.chunks) :
         LET c == lastCall.chunks[j]
         IN c.lines # <<>> =>
              /\ StrippedByK(c)
              /\ (c.dottab > 0 => \A i \in 1..Len(c.rows) : c.rows[i] # <<>>)
    /\ DotTabEmitted

\* C3 amended: for a matrix whose first k byte-columns are zero in every
\* row (k the largest such number, at most the length of the shortest row)
\* the dot-tab emitted is k and every row loses exactly k leading bytes; a
\* leading zero column is stripped whenever no row is empty before the
\* strip, also when the strip leaves rows empty, so stripping ends only at
\* an empty row or a non-zero leading byte.
C3_StripsLeadingZeroColumns ==
  PrintCall =>
    /\ \A j \in 1..Len(lastCall.chunks) :
         LET c == lastCall.chunks[j]
         IN c.lines # <<>> =>
              /\ StrippedByK(c)
              /\ \/ \E i \in 1..Len(c.rows) : c.rows[i] = <<>>
                 \/ \E i \in 1..Len(c.rows) : c.rows[i][1] # 0
    /\ DotTabEmitted

\* rows of a single zero byte were printed: dot-tab 1 and empty rows
C3_Witness ==
  /\ PrintCall /\ Ok(lastCall)
  /\ lastCall.lines = <<<<0>>, <<0>>>>
  /\ lastCall.chunks[1].dottab = 1
  /\ lastCall.chunks[1].rows = <<<<>>, <<>>>>
  /\ SubSeq(Built(1), 4, 6) = <<_ESC, OrdB, 1>>

RECURSIVE JoinChunks(_)
JoinChunks(chunks) ==
  IF chunks = <<>> THEN <<>> ELSE Head(chunks).lines \o JoinChunks(Tail(chunks))

ChunkSizes(chunks) == [j \in 1..Len(chunks) |-> Len(chunks[j].lines)]

\* C4 as stated: printLabel splits every matrix of more than 200 rows (201
\* included) into chunks of at most 200 rows that, joined in order, are the
\* original rows; 250 rows give chunks of 200 and 50 rows.
C4_ChunksOfAtMost200 ==
  lastCall.op = "printLabel" /\ Ok(lastCall) /\ Len(lastCall.lines) > 200 =>
    /\ \A j \in 1..Len(lastCall.chunks) : Len(lastCall.chunks[j].lines) <= 200
    /\ JoinChunks(lastCall.chunks) = lastCall.lines
    /\ (Len(lastCall.lines) = 250 => ChunkSizes(lastCall.chunks) = <<200, 50>>)

\* the bytes of write j that this call's skipLines appended as blank lines
MarginMarkers(j) ==
  LET w == lastCall.wrote[j]
      from == IF j = 1 THEN lastCall.pending + 1 ELSE 1
  IN {i \in from..Len(w.bytes) : w.src[i] = "skipLines"}

\* C5: in a printLabel job of several chunks with margin m > 0, the blank
\* lines of the margin are in the bytes flushed for the last chunk only:
\* there are exactly m of them there and none in any earlier flush.
C5_MarginInLastChunkOnly ==
  /\ lastCall.op = "printLabel" /\ Ok(lastCall)
  /\ Len(lastCall.chunks) >= 2 /\ lastCall.margin > 0
  => LET n == Len(lastCall.chunks)
     IN /\ Len(lastCall.wrote) = n
        /\ \A j \in 1..(n - 1) : MarginMarkers(j) = {}
        /\ Cardinality(MarginMarkers(n)) = lastCall.margin
        /\ \A i \in MarginMarkers(n) : lastCall.wrote[n].bytes[i] = 22

\* 250 rows printed with the default margin: two flushes
C5_Witness ==
  /\ lastCall.op = "printLabel" /\ Ok(lastCall)
  /\ Len(lastCall.lines) = 250 /\ lastCall.margin = 112
  /\ Len(lastCall.wrote) = 2
  /\ Cardinality(MarginMarkers(2)) = 112

\* a row without its trailing zero bytes
TrimRight(row) ==
  LET nz == {i \in 1..Len(row) : row[i] # 0}
  IN IF nz = {} THEN <<>>
     ELSE SubSeq(row, 1, CHOOSE i \in nz : \A j \in nz : j <= i)

\* the sequences pieces[lo..hi] joined in order
RECURSIVE JoinRange(_, _, _)
JoinRange(pieces, lo, hi) ==
  IF lo > hi THEN <<>>
  ELSE IF lo = hi THEN pieces[lo]
  ELSE LET mid == (lo + hi) \div 2
       IN JoinRange(pieces, lo, mid) \o JoinRange(pieces, mid + 1, hi)

\* the byte stream C6 describes for one chunk: tape-color 0, dot-tab k, per
\* row a bytes-per-line command when the row length changes and then the
\* line, the blank lines of the margin (after bytes-per-line 0 unless the
\* last row was empty), the status request
ExpectedStream(lines, margin) ==
  LET k == LeadingZeroColumns(lines)
      n == Len(lines)
      row == [i \in 1..n |-> TrimRight(SubSeq(lines[i], k + 1, Len(lines[i])))]
      piece == [i \in 1..n |->
                  (IF i = 1 \/ Len(row[i]) # Len(row[i - 1])
                     THEN <<27, 68, Len(row[i])>> ELSE <<>>)
                  \o <<22>> \o row[i]]
      blank == IF margin > 0
                 THEN (IF Len(row[n]) # 0 THEN <<27, 68, 0>> ELSE <<>>)
                      \o [i \in 1..margin |-> 22]
                 ELSE <<>>
  IN <<27, 67, 0, 27, 66, k>> \o JoinRange(piece, 1, n) \o blank \o <<27, 65>>

\* C6: every chunk that rawPrintLabel prints starting from an empty buffer
\* goes to the device in one write that is exactly: tape-color 0, dot-tab,
\* the lines in row order (bytes-per-line only where the length changes),
\* the margin's blank lines if margin > 0, the status request; one status
\* read follows each write; no byte comes from initLabel.
C6_ChunkStream ==
  PrintCall /\ Ok(lastCall) =>
    /\ Len(lastCall.wrote) = Len(lastCall.chunks)
    /\ lastCall.reads = Len(lastCall.chunks)
    /\ \A j \in 1..Len(lastCall.chunks) :
         /\ (j > 1 \/ lastCall.pending = 0
               => lastCall.wrote[j].bytes
                    = ExpectedStream(lastCall.chunks[j].lines, lastCall.chunks[j].margin))
         /\ \A i \in 1..Len(lastCall.wrote[j].src) :
              i > (IF j = 1 THEN lastCall.pending ELSE 0)
                => lastCall.wrote[j].src[i] # "initLabel"

\* two rows of different stripped lengths and a margin of one blank line
C6_Witness ==
  /\ lastCall.op = "rawPrintLabel" /\ Ok(lastCall) /\ lastCall.pending = 0
  /\ lastCall.lines = <<<<0, 1>>, <<1, 0>>>> /\ lastCall.margin = 1
  /\ lastCall.wrote = <<[bytes |-> <<27, 67, 0, 27, 66, 0, 27, 68, 2, 22, 0, 1,
                                      27, 68, 1, 22, 1, 27, 68, 0, 22, 27, 65>>,
                         src |-> lastCall.wrote[1].src]>>
  /\ lastCall.reads = 1

\* C7 as stated: sendCommand with an empty buffer writes and reads nothing;
\* with a non-empty buffer it writes exactly the accumulated bytes; and
\* whether it returns or raises, the buffer is empty and the response flag
\* false afterwards.
C7_SendAlwaysClears ==
  [][ lastCall'.op = "sendCommand"
      => /\ (cmd = <<>> => lastCall'.wrote = <<>> /\ lastCall'.reads = 0)
         /\ (cmd # <<>> /\ Ok(lastCall')
               => lastCall'.wrote = <<[bytes |-> cmd, src |-> src]>>)
         /\ cmd' = <<>>
         /\ response' = FALSE ]_vars

\* C8 as stated: what a print job had put in the buffer when one of its
\* builder calls raised is never written to the device by a later call.
C8_AbortedNeverWritten ==
  [][ aborted => lastCall'.wrote = <<>> ]_vars

Appenders == {"statusRequest", "dotTab", "tapeColor", "cut", "line",
              "chainMark", "skipLines", "initLabel"}

\* C9: the buffer is empty after construction; every successful appending
\* call leaves it non-empty (it extends the buffer); a successful sendCommand
\* leaves it empty; resetCommand empties it and clears the response flag
\* with nothing written to or read from the device.
C9_IdleBuilding ==
  /\ [](lastCall.op = "__init__" => cmd = <<>> /\ ~response)
  /\ [][ /\ (lastCall'.op \in Appenders /\ Ok(lastCall')
              => /\ cmd' # <<>> /\ Len(cmd') > Len(cmd)
                 /\ SubSeq(cmd', 1, Len(cmd)) = cmd)
          /\ (/\ lastCall'.op = "bytesPerLine" /\ Ok(lastCall')
              /\ lastCall'.arg # bytesPerLine_
              => cmd' # <<>>)
          /\ (lastCall'.op = "sendCommand" /\ Ok(lastCall') => cmd' = <<>>)
          /\ (lastCall'.op = "resetCommand"
              => /\ cmd' = <<>> /\ response' = FALSE
                 /\ lastCall'.wrote = <<>> /\ lastCall'.reads = 0) ]_vars

\* resetCommand discarded a buffer that held a status request
C9_Witness ==
  /\ lastCall.op = "resetCommand" /\ lastCall.added < 0
  /\ lastCall.pending >= 2 /\ lastCall.wrote = <<>>
  /\ cmd = <<>> /\ ~response

\* the byte count the call makes current: its argument, the length of its
\* row, or 0 for blank lines
CountOf(c) ==
  IF c.op = "bytesPerLine" THEN c.arg
  ELSE IF c.op = "line" THEN Len(c.value)
  ELSE 0

\* C10: every successful dotTab(n) leaves the memoized bytesPerLine unset,
\* also when n is the current dotTab, and the successful bytesPerLine(v),
\* line or skipLines call that follows it appends ESC 'D' v first.
C10_DotTabUnsetsMemo ==
  [][ /\ (lastCall'.op = "dotTab" /\ Ok(lastCall')
          => bytesPerLine_' = None /\ dotTab_' = lastCall'.arg)
      /\ (/\ lastCall.op = "dotTab" /\ Ok(lastCall)
          /\ lastCall'.op \in {"bytesPerLine", "line", "skipLines"} /\ Ok(lastCall')
          => /\ Len(cmd') >= Len(cmd) + 3
             /\ SubSeq(cmd', Len(cmd) + 1, Len(cmd) + 3)
                  = <<_ESC, OrdD, CountOf(lastCall')>>) ]_vars

\* a line of one byte right after dotTab(0): ESC 'D' 1 precedes the line
C10_Witness ==
  /\ cmd = <<_ESC, OrdB, 0, _ESC, OrdD, 1, _SYN, 1>>
  /\ lastCall.op = "line" /\ Ok(lastCall)

\* the i-th sendCommand of the last call got as far as deciding whether to
\* read: it did not raise while converting or writing the buffer
SendDecided(i) ==
  ~(i = Len(lastCall.sends) /\ lastCall.at \in {"array", "tofile"})

\* C11 as stated: a sendCommand reads the 8-byte response iff statusRequest
\* was called since the last sendCommand or resetCommand, so a status request
\* is never carried over to a later sendCommand; and the response flag is
\* true only while the buffer is non-empty.
C11_ReadsIffRequested ==
  /\ (response => cmd # <<>>)
  /\ \A i \in 1..Len(lastCall.sends) :
       SendDecided(i) => (lastCall.sends[i].read <=> lastCall.sends[i].asked)

\* C12: skipLines(n) raises for every n <= 0 and leaves the buffer (and the
\* memo) as it was; for every n > 0 it returns, appends ESC 'D' 0 unless 0
\* is the memoized byte count, then exactly n sync bytes and nothing else,
\* and leaves 0 memoized.
C12_SkipLines ==
  [][ lastCall'.op = "skipLines"
      => IF lastCall'.arg <= 0
           THEN /\ lastCall'.exc = "ValueError"
                /\ cmd' = cmd /\ bytesPerLine_' = bytesPerLine_
           ELSE /\ Ok(lastCall')
                /\ cmd' = cmd \o (IF bytesPerLine_ = 0 THEN <<>> ELSE <<_ESC, OrdD, 0>>)
                             \o Rep(_SYN, lastCall'.arg)
                /\ bytesPerLine_' = 0 ]_vars

\* skipLines(2) after dotTab(8): ESC 'D' 0 and two sync bytes were appended
C12_Witness ==
  /\ lastCall.op = "skipLines" /\ lastCall.arg = 2 /\ Ok(lastCall)
  /\ cmd = <<_ESC, OrdB, 8, _ESC, OrdD, 0, _SYN, _SYN>>
  /\ bytesPerLine_ = 0

DeviceCall == lastCall.op = "getDeviceFile"

\* the bus entries of fs that carry the labeler's ids
Matching(fs) ==
  {i \in 1..Len(fs.bus) : fs.bus[i].name = <<DEV_CLASS, DEV_VENDOR, DEV_PRODUCT>>}

\* the entry getDeviceFile stops at
FirstMatch(fs) == fs.bus[CHOOSE i \in Matching(fs) : \A j \in Matching(fs) : i <= j]

DevNumOf(e) == e.dev[1] * 256 + e.dev[2]

\* the files of /dev that carry the device number of entry e
FilesWithNumber(fs, e) ==
  {i \in 1..Len(fs.dev) : fs.dev[i].stat = "ok" /\ fs.dev[i].rdev = DevNumOf(e)}

\* the /dev/<hidraw name> candidate of entry e is a file with e's number
CandidateMatches(fs, e) ==
  \E i \in FilesWithNumber(fs, e) : fs.dev[i].path = <<"dev", e.hidraw[1]>>

\* no device file can be resolved: no bus entry matches, or one matches but
\* it has no /dev/char symlink, its candidate is missing or carries another
\* number, and no file of /dev carries its number
Unresolvable(fs) ==
  \/ Matching(fs) = {}
  \/ LET e == FirstMatch(fs)
     IN /\ e.hidraw # <<>>
        /\ \A l \in fs.char : l.nums # e.dev
        /\ ~CandidateMatches(fs, e)
        /\ FilesWithNumber(fs, e) = {}

\* C13 as stated: whenever no device file can be resolved, getDeviceFile
\* raises no error and returns None.
C13_NotFoundIsNone ==
  DeviceCall /\ Unresolvable(lastCall.fs)
    => lastCall.exc = "none" /\ lastCall.ret = "None"

\* the /dev/char symlinks of entry e that resolve
ResolvingLinks(fs, e) == {l \in fs.char : l.nums = e.dev /\ ~l.dangling}

\* C14: the first success wins, in the order symlink, name, scan: if the
\* /dev/char/<major>:<minor> symlink exists its target is returned, whatever
\* else matches; otherwise the /dev/<hidraw name> candidate is returned if it
\* carries the device number; only otherwise comes the result from the scan
\* of /dev; and a path returned by the name or the scan step is a file of
\* /dev that carries the device number read from the dev attribute.
C14_FirstSuccessWins ==
  DeviceCall /\ Matching(lastCall.fs) # {} /\ FirstMatch(lastCall.fs).hidraw # <<>>
    => LET fs == lastCall.fs
           e == FirstMatch(fs)
           links == ResolvingLinks(fs, e)
       IN /\ links # {}
               => /\ lastCall.ret = "path" /\ lastCall.via = "char"
                  /\ \E l \in links : lastCall.path = l.target
          /\ links = {} /\ CandidateMatches(fs, e)
               => /\ lastCall.ret = "path" /\ lastCall.via = "name"
                  /\ lastCall.path = <<"dev", e.hidraw[1]>>
          /\ lastCall.via = "scan" => links = {} /\ ~CandidateMatches(fs, e)
          /\ lastCall.ret = "path" /\ links = {}
               => \E i \in FilesWithNumber(fs, e) : fs.dev[i].path = lastCall.path

\* the symlink leads to /dev/usb/hiddev0 while /dev/hidraw0, met earlier in
\* /dev, carries the number too: the symlink's target was returned
C14_Witness ==
  /\ DeviceCall /\ lastCall.ret = "path"
  /\ lastCall.path = <<"dev", "usb", "hiddev0">> /\ lastCall.via = "char"
  /\ CandidateMatches(lastCall.fs, FirstMatch(lastCall.fs))
  /\ Cardinality(FilesWithNumber(lastCall.fs, FirstMatch(lastCall.fs))) = 2

\* main was run with both -qr and -c
BothRequested ==
  lastCall.op = "main" /\ lastCall.args.qr /\ lastCall.args.c # "False"

\* main raised its own exception before it built any bitmap, looked for the
\* device, opened it or printed
FailedBeforeRendering ==
  /\ lastCall.exc = "DymoPrintException"
  /\ \A i \in 1..Len(lastCall.steps) : lastCall.steps[i] \in {"read_config", "write_config"}
  /\ lastCall.bitmaps = <<>> /\ lastCall.painted = {}

\* C15 as stated: when both QR and barcode content are requested main fails
\* with the conflicting-content error before any content element is
\* rendered; no device is opened and nothing is written to it.
C15_ConflictError ==
  BothRequested
    => /\ FailedBeforeRendering
       /\ lastCall.msg = "can not print both QR and Barcode"

\* C15 amended: when both QR and barcode content are requested main fails
\* before any content element is rendered, no device is opened and nothing
\* is written to it; the error is the conflicting-content error when the
\* checks main makes before it pass (the config file is valid or absent, the
\* -u font is a file, the QR and the barcode back end were imported), and
\* the error of the first of those checks that fails otherwise.
C15_FailsBeforeRendering ==
  BothRequested
    => /\ FailedBeforeRendering
       /\ lastCall.msg =
            IF lastCall.env.config = "invalid" THEN "config file not valid"
            ELSE IF lastCall.args.u # "None" /\ ~lastCall.env.font THEN "file not found"
            ELSE IF ~lastCall.env.USE_QR THEN "e_qrcode"
            ELSE IF ~lastCall.env.USE_BARCODE THEN "e_barcode"
            ELSE "can not print both QR and Barcode"

\* both requested with both back ends present and the printer plugged in:
\* the conflict error, after nothing but reading the config file
C15_Witness ==
  /\ BothRequested /\ ~lastCall.args.v
  /\ lastCall.env.USE_QR /\ lastCall.env.USE_BARCODE
  /\ lastCall.msg = "can not print both QR and Barcode"
  /\ lastCall.steps = <<"read_config">>

\* main got to the QR branch
QrComposed ==
  /\ lastCall.op = "main"
  /\ \E i \in 1..Len(lastCall.steps) : lastCall.steps[i] = "QRCode"

QrTooDense ==
  lastCall.exc = "DymoPrintException" /\ lastCall.msg = "too much information"

\* C16: with labelHeight = 64 and N >= 1 lines, scale = floor(64 / N); the
\* composition fails with the too-dense error exactly when scale = 0, that
\* is when N > 64; N = 40 gives scale 1 and N = 80 fails; and when it
\* succeeds offset = floor((64 - N * scale) / 2) >= 0, N * scale + offset
\* <= 64 and every point painted lies inside the 64 x 64 bitmap.
C16_QrScale ==
  QrComposed
    => LET N == lastCall.env.qr_text.n
           scale == lastCall.qr_scale
           offset == lastCall.qr_offset
       IN /\ scale * N <= 64 /\ 64 < (scale + 1) * N
          /\ (QrTooDense <=> scale = 0)
          /\ (scale = 0 <=> N > 64)
          /\ (N = 40 => scale = 1 /\ ~QrTooDense)
          /\ (N = 80 => QrTooDense)
          /\ ~QrTooDense
               => /\ 2 * offset <= 64 - N * scale /\ 64 - N * scale < 2 * offset + 2
                  /\ offset >= 0 /\ N * scale + offset <= 64
                  /\ lastCall.painted # {}
                  /\ \A p \in lastCall.painted : p[1] \in 0..63 /\ p[2] \in 0..63

\* 40 lines of 40 modules, all set: scale 1, offset 12, rows 12..51 painted
C16_Witness ==
  /\ QrComposed /\ lastCall.exc = "none"
  /\ lastCall.env.qr_text = [n |-> 40, modules |-> "all"]
  /\ lastCall.qr_scale = 1 /\ lastCall.qr_offset = 12
  /\ <<39, 51>> \in lastCall.painted /\ <<0, 12>> \in lastCall.painted
  /\ Cardinality(lastCall.painted) = 1600

\* C17: without resetCommand, every line-data command reaches the device
\* when the last bytes-per-line command before it in the byte stream carries
\* the length of its payload and no dot-tab command lies between the two.
C17_LinesFramed == ~lastCall.misframed

\* a line of one byte appended after a sendCommand without a new
\* bytes-per-line command: the device holds 1 from the write before
C17_Witness ==
  /\ lastCall.op = "line" /\ Ok(lastCall) /\ lastCall.pending = 0
  /\ cmd = <<_SYN, 1>>
  /\ wire.bytesPerLine = 1 /\ bytesPerLine_ = 1

\* C18: in every reachable state, whatever calls were made and whether they
\* returned or raised, 0 <= dotTab_ <= 8 and bytesPerLine_ is unset or
\* satisfies 0 <= bytesPerLine_ and dotTab_ + bytesPerLine_ <= 8.
C18_FieldsInRange ==
  /\ dotTab_ \in 0..8
  /\ bytesPerLine_ = None \/ (bytesPerLine_ >= 0 /\ dotTab_ + bytesPerLine_ <= 8)

\* dot-tab 5 and 3 bytes per line memoized, the sum at its limit, after a
\* bytesPerLine(4) that raised
C18_Witness ==
  /\ dotTab_ = 5 /\ bytesPerLine_ = 3
  /\ lastCall.op = "bytesPerLine" /\ lastCall.arg = 4 /\ lastCall.exc = "ValueError"

\* C19: a dotTab, bytesPerLine, tapeColor, skipLines or line call that fails
\* its range check leaves the command buffer, dotTab_, bytesPerLine_ and the
\* response flag exactly as they were before the call.
C19_FailedCallChangesNothing ==
  [][ lastCall'.op \in BuilderNames /\ lastCall'.exc = "ValueError"
      => /\ cmd' = cmd /\ dotTab_' = dotTab_
         /\ bytesPerLine_' = bytesPerLine_ /\ response' = response ]_vars

\* a line of nine bytes raised while the buffer held a status request
C19_Witness ==
  /\ lastCall.op = "line" /\ lastCall.exc = "ValueError"
  /\ Len(lastCall.value) = 9 /\ lastCall.added = 0
  /\ cmd = <<_ESC, OrdA>> /\ response

\* C20 as stated: also after resetCommand, whenever bytesPerLine_ is set to v
\* and dotTab_ is d, the last bytes-per-line and dot-tab values written to
\* the device or pending in the buffer are v and d, and no line is emitted
\* with a stale or missing bytes-per-line command.
C20_MemoAgreesWithDevice ==
  /\ bytesPerLine_ # None
       => /\ Pending(Self).bytesPerLine = bytesPerLine_
          /\ Pending(Self).dotTab = dotTab_
  /\ ~lastCall.misframed

\* what a device reading a byte stream holds: the index of the next byte to
\* read, the dot-tab and bytes-per-line values in force, the rows printed so
\* far, and whether every byte read so far was part of a known command
Reader(at, tab, count, rows, ok) ==
  [at |-> at, dotTab |-> tab, bytesPerLine |-> count, rows |-> rows, ok |-> ok]

\* the row of L bytes a line-data command prints: dot-tab zero bytes, the
\* payload, zero bytes up to L
Printed(tab, payload, L) ==
  LET row == Zeros(tab) \o payload
  IN row \o Zeros(L - Len(row))

\* the device reads one command of write w at d.at: ESC with an opcode (and
\* a value for 'B', 'C', 'D'), or SYN with as many payload bytes as the
\* bytes-per-line in force; the rows are those of line-data commands this
\* call appended (index above own), not the blank lines of skipLines
ReadCommand(w, own, L, d) ==
  LET n == Len(w.bytes)
      b == w.bytes[d.at]
      op == w.bytes[d.at + 1]
  IN IF d.at > n \/ ~d.ok THEN d
     ELSE IF b = _ESC /\ d.at + 1 <= n /\ op \in {OrdA, OrdE}
       THEN [d EXCEPT !.at = @ + 2]
     ELSE IF b = _ESC /\ d.at + 2 <= n /\ op = OrdB
       THEN [d EXCEPT !.at = @ + 3, !.dotTab = w.bytes[d.at + 2]]
     ELSE IF b = _ESC /\ d.at + 2 <= n /\ op = OrdC
       THEN [d EXCEPT !.at = @ + 3]
     ELSE IF b = _ESC /\ d.at + 2 <= n /\ op = OrdD
       THEN [d EXCEPT !.at = @ + 3, !.bytesPerLine = w.bytes[d.at + 2]]
     ELSE IF b = _SYN /\ d.bytesPerLine # None /\ d.at + d.bytesPerLine <= n
       THEN LET payload == SubSeq(w.bytes, d.at + 1, d.at + d.bytesPerLine)
            IN [d EXCEPT !.at = @ + 1 + d.bytesPerLine,
                         !.rows = IF w.src[d.at] = "line" /\ d.at > own
                                    THEN Append(@, Printed(d.dotTab, payload, L))
                                    ELSE @]
     ELSE [d EXCEPT !.ok = FALSE]

\* the device reads up to n commands; the count is halved so that a long
\* write does not nest one step per command
RECURSIVE ReadCommands(_, _, _, _, _)
ReadCommands(w, own, L, d, n) ==
  IF n <= 0 \/ d.at > Len(w.bytes) \/ ~d.ok THEN d
  ELSE IF n = 1 THEN ReadCommand(w, own, L, d)
  ELSE ReadCommands(w, own, L, ReadCommands(w, own, L, d, n \div 2), n - n \div 2)

\* the device reads the writes j..Len(wrote) of the last call, one after the
\* other, keeping its dot-tab and bytes-per-line between writes
RECURSIVE ReadWrites(_, _, _)
ReadWrites(j, L, d) ==
  IF j > Len(lastCall.wrote) THEN d
  ELSE LET w == lastCall.wrote[j]
           own == IF j = 1 THEN lastCall.pending ELSE 0
       IN ReadWrites(j + 1, L,
                     ReadCommands(w, own, L, [d EXCEPT !.at = 1], Len(w.bytes)))

\* what the last call made the device print, on rows of L bytes
Decoded(L) == ReadWrites(1, L, Reader(1, 0, None, <<>>, TRUE))

\* every row of the matrix has L bytes
Uniform(lines, L) == \A i \in 1..Len(lines) : Len(lines[i]) = L

\* C21: for every matrix of rows of uniform byte length L <= 8 that a print
\* call printed, decoding what the call wrote (per line-data command: the
\* dot-tab in force as zero bytes, the payload, zero bytes up to L) gives
\* the matrix's rows in their order, across all chunks.
C21_PrintRoundTrip ==
  PrintCall /\ Ok(lastCall) =>
    \A L \in 0.._MAX_BYTES_PER_LINE :
      Uniform(lastCall.lines, L) =>
        /\ Decoded(L).ok
        /\ Decoded(L).rows = lastCall.lines

\* 401 rows with a zero leading column were printed in two chunks and
\* decoded; the 21st row's payload is the sync byte's value
C21_Witness ==
  /\ lastCall.op = "printLabel" /\ Ok(lastCall)
  /\ Len(lastCall.lines) = 2 * maxLines + 1 /\ Uniform(lastCall.lines, 2)
  /\ lastCall.lines[21] = <<0, _SYN>>
  /\ Len(lastCall.wrote) = 2
  /\ lastCall.chunks[1].dottab = 1
  /\ Decoded(2).rows = lastCall.lines

\* C22 as stated: every value held in the command buffer is an unsigned
\* 8-bit value (0..255) after any sequence of successful builder calls, so
\* that converting the buffer in sendCommand cannot fail.
C22_BufferHoldsBytes ==
  /\ \A i \in 1..Len(cmd) : cmd[i] \in 0..255
  /\ ~(lastCall.op = "sendCommand" /\ lastCall.exc = "OverflowError")

Finished == frame.pc \in {"done", "raised"}

\* the bytes of the rows rawPrintLabel still holds, and the rows the
\* trailing-zero loop has not left yet
BytesLeft == Len(JoinRange(frame.lines, 1, Len(frame.lines)))

RowsLeft == Len(frame.lines) + 1 - frame.row

\* C23: with a device that answers every write and read, printLabel ends for
\* every matrix (it returns or raises); each pass of the chunking loop
\* leaves fewer rows, each pass of the leading-column loop and of the
\* trailing-zero loop fewer bytes or fewer rows to visit; and a job that
\* returned wrote to the device once and read one status per chunk, while a
\* job that raised did so for every chunk but the one that raised.
C23_PrintLabelTerminates ==
  /\ <>Finished
  /\ [][ /\ (frame.pc = "return" /\ frame'.pc = "printLabel"
              => Len(frame'.rest) < Len(frame.rest))
         /\ (frame.pc = "leading" /\ frame'.pc = "leading"
              => BytesLeft' < BytesLeft)
         /\ (frame.pc = "trailing" /\ frame'.pc = "trailing"
              => BytesLeft' + RowsLeft' < BytesLeft + RowsLeft) ]_vars
  /\ [](frame.pc = "done"
          => /\ Len(lastCall.wrote) = Len(lastCall.chunks)
             /\ lastCall.reads = Len(lastCall.chunks)
             /\ Len(lastCall.sends) = Len(lastCall.chunks))
  /\ [](frame.pc = "raised"
          => /\ Len(lastCall.wrote) = Len(lastCall.chunks) - 1
             /\ lastCall.reads = Len(lastCall.chunks) - 1)

\* 401 rows were printed: two chunks, two writes, two status reads
C23_Witness ==
  /\ frame.pc = "done" /\ Ok(lastCall)
  /\ Len(lastCall.lines) = 2 * maxLines + 1
  /\ Len(lastCall.chunks) = 2 /\ Len(lastCall.wrote) = 2 /\ lastCall.reads = 2

\* C24: for every matrix of any number of rows (none, or all of them zero,
\* included) of uniform byte length L in 0..8 and every margin >= 0, no
\* builder call of the print call raises: the dot-tab computed for each
\* chunk is at most 8, and so is the dot-tab plus the length of each row
\* once its trailing zero bytes are stripped.
C24_NoBuilderError ==
  PrintCall /\ (\E L \in 0.._MAX_BYTES_PER_LINE : Uniform(lastCall.lines, L)) =>
    /\ lastCall.at \notin BuilderNames
    /\ \A j \in 1..Len(lastCall.chunks) :
         LET c == lastCall.chunks[j]
         IN /\ c.dottab <= _MAX_BYTES_PER_LINE
            /\ \A i \in 1..Len(c.rows) :
                 c.dottab + Len(StripTrailing(c.rows[i])) <= _MAX_BYTES_PER_LINE

\* two rows of eight zero bytes were printed with a margin: dot-tab 8, empty
\* lines
C24_Witness ==
  /\ PrintCall /\ Ok(lastCall)
  /\ lastCall.lines = <<Zeros(_MAX_BYTES_PER_LINE), Zeros(_MAX_BYTES_PER_LINE)>>
  /\ lastCall.margin = 2 /\ lastCall.pending = 0
  /\ lastCall.chunks[1].dottab = _MAX_BYTES_PER_LINE
  /\ lastCall.wrote[1].bytes = <<_ESC, OrdC, 0, _ESC, OrdB, 8, _ESC, OrdD, 0,
                                 _SYN, _SYN, _SYN, _SYN, _ESC, OrdA>>

====
